---------------------------- MODULE Spec2Model ----------------------------
(***************************************************************************)
(* Detective Quest (src/algoritmos_avancados.c): a fixed binary tree of    *)
(* rooms, a binary search tree of collected clues, a chained hash table    *)
(* from clue to suspect, the interactive exploration loop and the final    *)
(* accusation.                                                             *)
(*                                                                         *)
(* C strings are sequences of bytes 1..255 (the terminating NUL is left    *)
(* implicit); a NULL `char *` is the value NULLPTR.  Fixed-size buffers    *)
(* keep their sizes: a copy into a buffer truncates.                       *)
(***************************************************************************)
EXTENDS Integers, Sequences, FiniteSets, TLC

VARIABLES
    ulongBits,   \* width of `unsigned long` on the build (32 or 64)
    salas,       \* the Sala objects of main, by address 1..6
    tabela,      \* HashEntry *tabela[HASH_SIZE]: bucket -> chain, head first
    raizPistas,  \* PistaNode *raizPistas: the BST of collected clues
    atual,       \* explorarSalas: Sala *atual (0 is NULL)
    pc,          \* position of the program
    eof,         \* stdin has reached end-of-file
    encerrada,   \* how explorarSalas left its loop ("nao": still in it)
    cmds,        \* the command characters scanf has delivered so far
    listadas,    \* what exibirPistas printed last
    acusado,     \* verificarSuspeitoFinal: char acusado[MAX_NOME]
    cont,        \* verificarSuspeitoFinal: int cont (-1: never computed)
    veredicto,   \* what verificarSuspeitoFinal reported
    inseridas,   \* history: every argument inserirPista was called with
    postas,      \* history: every key inserirNaHash was given a suspect for
    passos,      \* history: number of calls made by a harness
    ult          \* history: the last call made by a harness, the last
                 \* line read by verificarSuspeitoFinal

vars ==
    <<ulongBits, salas, tabela, raizPistas, atual, pc, eof, encerrada, cmds,
      listadas,
      acusado, cont, veredicto, inseridas, postas, passos, ult>>

-----------------------------------------------------------------------------
(* Program constants *)

MAX_NOME ==
    64

MAX_PISTA ==
    128

HASH_SIZE ==
    101

-----------------------------------------------------------------------------
(* Bounds of the model *)

\* calls of inserirPista made by the clue-set harness
MaxInsercoes ==
    4

\* calls of inserirNaHash made by the suspect-index harness
MaxPuts ==
    3

\* commands the player types in one session
MaxComandos ==
    3

-----------------------------------------------------------------------------
(* C strings *)

\* a NULL pointer where a string is expected (no byte is negative)
NULLPTR ==
    <<-1>>

Min(a, b) ==
    IF a <= b THEN a ELSE b

\* n copies of byte b
Rep(b, n) ==
    [i \in 1..n |-> b]

\* the byte at position i of a C string, 0 (the terminator) past its end
ByteEm(s, i) ==
    IF i <= Len(s) THEN s[i] ELSE 0

\* strcmp of <string.h>: the difference of the first two differing bytes,
\* compared as unsigned char; the terminator ends the comparison
strcmp(a, b) ==
    LET difs == {i \in 1..(Min(Len(a), Len(b)) + 1) :
                     ByteEm(a, i) # ByteEm(b, i)}
    IN  IF difs = {} THEN 0
        ELSE LET i == CHOOSE k \in difs : \A j \in difs : k <= j
             IN  ByteEm(a, i) - ByteEm(b, i)

\* strncpy(dst, s, tam-1); dst[tam-1] = '\0': at most tam-1 bytes are kept
CopiaLimitada(s, tam) ==
    SubSeq(s, 1, Min(Len(s), tam - 1))

-----------------------------------------------------------------------------
(* The clue set: a binary search tree of PistaNode *)

NULL ==
    <<>>

\* a PistaNode is <<pista, esq, dir>>
PistaNode(p, e, d) ==
    <<p, e, d>>

PistaDe(n) ==
    n[1]

EsqDe(n) ==
    n[2]

DirDe(n) ==
    n[3]

\* a plausible slip: the test for an equal text is dropped
RECURSIVE inserirPistaSemIgual(_, _)
inserirPistaSemIgual(raiz, pista) ==
    IF pista = NULLPTR \/ pista = <<>> THEN raiz
    ELSE IF raiz = NULL
         THEN PistaNode(CopiaLimitada(pista, MAX_PISTA), NULL, NULL)
    ELSE IF strcmp(pista, PistaDe(raiz)) < 0
         THEN PistaNode(PistaDe(raiz),
                        inserirPistaSemIgual(EsqDe(raiz), pista),
                        DirDe(raiz))
    ELSE PistaNode(PistaDe(raiz), EsqDe(raiz),
                   inserirPistaSemIgual(DirDe(raiz), pista))

\* a plausible slip: the two branches are swapped
RECURSIVE inserirPistaTrocada(_, _)
inserirPistaTrocada(raiz, pista) ==
    IF pista = NULLPTR \/ pista = <<>> THEN raiz
    ELSE IF raiz = NULL
         THEN PistaNode(CopiaLimitada(pista, MAX_PISTA), NULL, NULL)
    ELSE IF strcmp(pista, PistaDe(raiz)) < 0
         THEN PistaNode(PistaDe(raiz), EsqDe(raiz),
                        inserirPistaTrocada(DirDe(raiz), pista))
    ELSE IF strcmp(pista, PistaDe(raiz)) > 0
         THEN PistaNode(PistaDe(raiz),
                        inserirPistaTrocada(EsqDe(raiz), pista), DirDe(raiz))
    ELSE raiz

RECURSIVE inserirPista(_, _)
inserirPista(raiz, pista) ==
    IF pista = NULLPTR \/ pista = <<>> THEN raiz
    ELSE IF raiz = NULL
         THEN PistaNode(CopiaLimitada(pista, MAX_PISTA), NULL, NULL)
    ELSE IF strcmp(pista, PistaDe(raiz)) < 0
         THEN PistaNode(PistaDe(raiz),
                        inserirPista(EsqDe(raiz), pista), DirDe(raiz))
    ELSE IF strcmp(pista, PistaDe(raiz)) > 0
         THEN PistaNode(PistaDe(raiz), EsqDe(raiz),
                        inserirPista(DirDe(raiz), pista))
    ELSE raiz

\* the lines exibirPistas prints, in order (left, node, right)
RECURSIVE exibirPistas(_)
exibirPistas(raiz) ==
    IF raiz = NULL THEN <<>>
    ELSE exibirPistas(EsqDe(raiz)) \o <<PistaDe(raiz)>>
             \o exibirPistas(DirDe(raiz))

-----------------------------------------------------------------------------
(* hash_string: unsigned long arithmetic, kept to its width.  A value is   *)
(* a little-endian sequence of 16-bit limbs, ulongBits \div 16 of them.    *)

ULong(n) ==
    [i \in 1..(ulongBits \div 16) |-> IF i = 1 THEN n ELSE 0]

\* ((h << 5) + h) + c, truncated to the width of h
RECURSIVE Vezes33Mais(_, _, _)
Vezes33Mais(h, i, vai) ==
    IF i > Len(h) THEN <<>>
    ELSE <<(h[i] * 33 + vai) % 65536>>
             \o Vezes33Mais(h, i + 1, (h[i] * 33 + vai) \div 65536)

\* the loop `while ((c = *s++)) h = ((h << 5) + h) + c` over the bytes
\* lo..hi of s, entered with h.  The bytes are folded left to right; the
\* range is halved, and the value v after the first half is computed
\* before the second half is entered, only to keep the evaluation shallow.
RECURSIVE hashTrecho(_, _, _, _)
hashTrecho(s, lo, hi, h) ==
    IF lo > hi THEN h
    ELSE IF lo = hi THEN Vezes33Mais(h, 1, s[lo])
    ELSE CHOOSE r \in {hashTrecho(s, (lo + hi) \div 2 + 1, hi, v) :
                          v \in {hashTrecho(s, lo, (lo + hi) \div 2, h)}} :
             TRUE

hash_string(s) ==
    hashTrecho(s, 1, Len(s), ULong(5381))

\* h % m, from the most significant limb down
RECURSIVE ULongMod(_, _, _, _)
ULongMod(h, i, m, r) ==
    IF i = 0 THEN r
    ELSE ULongMod(h, i - 1, m, (r * 65536 + h[i]) % m)

\* hash_string(pista) % HASH_SIZE
Balde(pista) ==
    ULongMod(hash_string(pista), ulongBits \div 16, HASH_SIZE, 0)

-----------------------------------------------------------------------------
(* The suspect index: HashEntry *tabela[HASH_SIZE], chained *)

HashEntry(p, s) ==
    [pista |-> p, suspeito |-> s]

TabelaVazia ==
    [b \in 0..(HASH_SIZE - 1) |-> <<>>]

\* the walk `while (at) { if (strcmp(at->pista, pista) == 0) ... }`:
\* the position of the first entry of the chain with that key, 0 if none
RECURSIVE ProcurarNaLista(_, _, _)
ProcurarNaLista(lista, pista, i) ==
    IF i > Len(lista) THEN 0
    ELSE IF strcmp(lista[i].pista, pista) = 0 THEN i
    ELSE ProcurarNaLista(lista, pista, i + 1)

inserirNaHash(tab, pista, suspeito) ==
    IF pista = NULLPTR \/ suspeito = NULLPTR THEN tab
    ELSE LET h == Balde(pista)
             i == ProcurarNaLista(tab[h], pista, 1)
         IN  IF i # 0
             THEN [tab EXCEPT
                     ![h][i].suspeito = CopiaLimitada(suspeito, MAX_NOME)]
             ELSE [tab EXCEPT
                     ![h] = <<HashEntry(CopiaLimitada(pista, MAX_PISTA),
                                        CopiaLimitada(suspeito, MAX_NOME))>>
                                \o @]

\* the suspect of a clue, NULLPTR when the table has none
encontrarSuspeito(tab, pista) ==
    IF pista = NULLPTR THEN NULLPTR
    ELSE LET h == Balde(pista)
             i == ProcurarNaLista(tab[h], pista, 1)
         IN  IF i # 0 THEN tab[h][i].suspeito ELSE NULLPTR

\* where the entries of the table are: <<bucket, position in its chain>>
Entradas(tab) ==
    UNION {{<<b, i>> : i \in 1..Len(tab[b])} : b \in 0..(HASH_SIZE - 1)}

\* the number of entries of the table
NumEntradas(tab) ==
    Cardinality(Entradas(tab))

-----------------------------------------------------------------------------
(* The room map of main *)

\* "Hall de Entrada"
N_Hall ==
    <<72, 97, 108, 108, 32, 100, 101, 32, 69, 110, 116, 114, 97, 100, 97>>
\* "Sala de Estar"
N_Estar ==
    <<83, 97, 108, 97, 32, 100, 101, 32, 69, 115, 116, 97, 114>>
\* "Biblioteca"
N_Biblioteca ==
    <<66, 105, 98, 108, 105, 111, 116, 101, 99, 97>>
\* "Cozinha"
N_Cozinha ==
    <<67, 111, 122, 105, 110, 104, 97>>
\* "Jardim"
N_Jardim ==
    <<74, 97, 114, 100, 105, 109>>
\* "Porão" (UTF-8)
N_Porao ==
    <<80, 111, 114, 195, 163, 111>>
\* "Pegada suja"
P_Pegada ==
    <<80, 101, 103, 97, 100, 97, 32, 115, 117, 106, 97>>
\* "Perfume feminino caro"
P_Perfume ==
    <<80, 101, 114, 102, 117, 109, 101, 32, 102, 101, 109, 105, 110, 105,
      110, 111, 32, 99, 97, 114, 111>>
\* "Livro rasgado"
P_Livro ==
    <<76, 105, 118, 114, 111, 32, 114, 97, 115, 103, 97, 100, 111>>
\* "Copo com fragmento de esmalte"
P_Copo ==
    <<67, 111, 112, 111, 32, 99, 111, 109, 32, 102, 114, 97, 103, 109, 101,
      110, 116, 111, 32, 100, 101, 32, 101, 115, 109, 97, 108, 116, 101>>
\* "Filtro de cigarro"
P_Filtro ==
    <<70, 105, 108, 116, 114, 111, 32, 100, 101, 32, 99, 105, 103, 97, 114,
      114, 111>>
\* "Luva encharcada"
P_Luva ==
    <<76, 117, 118, 97, 32, 101, 110, 99, 104, 97, 114, 99, 97, 100, 97>>
\* "Carlos"
S_Carlos ==
    <<67, 97, 114, 108, 111, 115>>
\* "Dona Beatriz"
S_Beatriz ==
    <<68, 111, 110, 97, 32, 66, 101, 97, 116, 114, 105, 122>>
\* "Professor Otávio" (UTF-8)
S_Otavio ==
    <<80, 114, 111, 102, 101, 115, 115, 111, 114, 32, 79, 116, 195, 161,
      118, 105, 111>>

\* a Sala; esquerda and direita are addresses, 0 is NULL
criarSala(nome, pista) ==
    [nome     |-> CopiaLimitada(nome, MAX_NOME),
     pista    |-> IF pista # NULLPTR /\ pista # <<>>
                  THEN CopiaLimitada(pista, MAX_PISTA) ELSE <<>>,
     esquerda |-> 0,
     direita  |-> 0]

\* addresses of the rooms main allocates, in allocation order
hall ==
    1
estar ==
    2
biblioteca ==
    3
cozinha ==
    4
jardim ==
    5
porao ==
    6

\* a plausible slip: a link too many, from Porão back to the Hall
SalasDeMainComCiclo ==
    LET criadas ==
            (hall :> criarSala(N_Hall, P_Pegada))
         @@ (estar :> criarSala(N_Estar, P_Perfume))
         @@ (biblioteca :> criarSala(N_Biblioteca, P_Livro))
         @@ (cozinha :> criarSala(N_Cozinha, P_Copo))
         @@ (jardim :> criarSala(N_Jardim, P_Filtro))
         @@ (porao :> criarSala(N_Porao, P_Luva))
    IN  [criadas EXCEPT ![hall].esquerda = estar,
                        ![hall].direita = biblioteca,
                        ![estar].esquerda = cozinha,
                        ![estar].direita = jardim,
                        ![biblioteca].direita = porao,
                        ![porao].direita = hall]

\* a plausible slip: the two children of Sala de Estar are swapped
SalasDeMainTrocadas ==
    LET criadas ==
            (hall :> criarSala(N_Hall, P_Pegada))
         @@ (estar :> criarSala(N_Estar, P_Perfume))
         @@ (biblioteca :> criarSala(N_Biblioteca, P_Livro))
         @@ (cozinha :> criarSala(N_Cozinha, P_Copo))
         @@ (jardim :> criarSala(N_Jardim, P_Filtro))
         @@ (porao :> criarSala(N_Porao, P_Luva))
    IN  [criadas EXCEPT ![hall].esquerda = estar,
                        ![hall].direita = biblioteca,
                        ![estar].esquerda = jardim,
                        ![estar].direita = cozinha,
                        ![biblioteca].direita = porao]

\* the six criarSala calls of main followed by its link assignments
SalasDeMain ==
    LET criadas ==
            (hall :> criarSala(N_Hall, P_Pegada))
         @@ (estar :> criarSala(N_Estar, P_Perfume))
         @@ (biblioteca :> criarSala(N_Biblioteca, P_Livro))
         @@ (cozinha :> criarSala(N_Cozinha, P_Copo))
         @@ (jardim :> criarSala(N_Jardim, P_Filtro))
         @@ (porao :> criarSala(N_Porao, P_Luva))
    IN  [criadas EXCEPT ![hall].esquerda = estar,
                        ![hall].direita = biblioteca,
                        ![estar].esquerda = cozinha,
                        ![estar].direita = jardim,
                        ![biblioteca].direita = porao]

\* a plausible slip: "Luva encharcada" is attributed to Carlos
TabelaDeMainLuvaDeCarlos ==
    LET t1 == inserirNaHash(TabelaVazia, P_Pegada, S_Carlos)
        t2 == inserirNaHash(t1, P_Perfume, S_Beatriz)
        t3 == inserirNaHash(t2, P_Livro, S_Otavio)
        t4 == inserirNaHash(t3, P_Copo, S_Beatriz)
        t5 == inserirNaHash(t4, P_Filtro, S_Carlos)
    IN  inserirNaHash(t5, P_Luva, S_Carlos)

\* the table of main: emptied, then its six inserirNaHash calls in order
TabelaDeMain ==
    LET t1 == inserirNaHash(TabelaVazia, P_Pegada, S_Carlos)
        t2 == inserirNaHash(t1, P_Perfume, S_Beatriz)
        t3 == inserirNaHash(t2, P_Livro, S_Otavio)
        t4 == inserirNaHash(t3, P_Copo, S_Beatriz)
        t5 == inserirNaHash(t4, P_Filtro, S_Carlos)
    IN  inserirNaHash(t5, P_Luva, S_Otavio)

-----------------------------------------------------------------------------
(* Reading stdin, and the final judgement *)

\* the bytes fgets(buf, tam, stdin) stores for a line of text `texto` that
\* ends with a newline (fim = "nl") or with the end of the file ("eof")
fgets(texto, fim, tam) ==
    LET linha == IF fim = "nl" THEN texto \o <<10>> ELSE texto
    IN  SubSeq(linha, 1, Min(Len(linha), tam - 1))

\* a plausible slip: the trailing newline is left in the buffer
strip_newlineOmitido(s) ==
    s

strip_newline(s) ==
    IF s = NULLPTR \/ Len(s) = 0 THEN s
    ELSE IF s[Len(s)] = 10 THEN SubSeq(s, 1, Len(s) - 1)
    ELSE s

\* a plausible slip: a clue without a suspect is counted too
RECURSIVE contarSemTesteDeNulo(_, _, _, _)
contarSemTesteDeNulo(raiz, tab, suspeitoAlvo, contador) ==
    IF raiz = NULL THEN contador
    ELSE LET c1 == contarSemTesteDeNulo(EsqDe(raiz), tab, suspeitoAlvo,
                                        contador)
             s  == encontrarSuspeito(tab, PistaDe(raiz))
             c2 == IF s = NULLPTR \/ strcmp(s, suspeitoAlvo) = 0
                   THEN c1 + 1 ELSE c1
         IN  contarSemTesteDeNulo(DirDe(raiz), tab, suspeitoAlvo, c2)

\* the value of *contador after the call
RECURSIVE contarPistasPorSuspeitoRec(_, _, _, _)
contarPistasPorSuspeitoRec(raiz, tab, suspeitoAlvo, contador) ==
    IF raiz = NULL THEN contador
    ELSE LET c1 == contarPistasPorSuspeitoRec(EsqDe(raiz), tab,
                                              suspeitoAlvo, contador)
             s  == encontrarSuspeito(tab, PistaDe(raiz))
             c2 == IF s # NULLPTR /\ strcmp(s, suspeitoAlvo) = 0
                   THEN c1 + 1 ELSE c1
         IN  contarPistasPorSuspeitoRec(DirDe(raiz), tab, suspeitoAlvo, c2)

\* a plausible slip: the threshold test written cont >= 1
VeredictoComUma(n) ==
    IF n >= 1 THEN "culpado" ELSE "insuficiente"

\* a plausible slip: the threshold test written cont > 2
VeredictoAcimaDeDois(n) ==
    IF n > 2 THEN "culpado" ELSE "insuficiente"

\* the verdict verificarSuspeitoFinal prints for a count
VeredictoDe(n) ==
    IF n >= 2 THEN "culpado" ELSE "insuficiente"

\* no call recorded.  For a read of stdin: chave is the text of the line,
\* terminada says that a newline ends it, esgotada that stdin was already
\* at its end before the read.
SemUlt ==
    [op |-> "nenhuma", chave |-> <<>>, valor |-> <<>>, raizAntes |-> NULL,
     nAntes |-> 0, presente |-> FALSE, terminada |-> FALSE,
     esgotada |-> FALSE]

\* verificarSuspeitoFinal, given the line stdin holds next: the clues are
\* listed, the accusation is read and trimmed, and either the reading
\* fails, or the name is empty, or the count and the verdict are printed
\* (a stdin that is at its end holds no further line)
verificarSuspeitoFinal(texto, fim) ==
    /\ eof => (texto = <<>> /\ fim = "eof")
    /\ listadas' = exibirPistas(raizPistas)
    /\ ult' = [SemUlt EXCEPT !.op = "acusar", !.chave = texto,
                             !.terminada = (fim = "nl"), !.esgotada = eof]
    /\ IF eof \/ (texto = <<>> /\ fim = "eof")
       THEN /\ veredicto' = "erro_leitura"
            /\ eof' = TRUE
            /\ UNCHANGED <<acusado, cont>>
       ELSE /\ acusado' = strip_newline(fgets(texto, fim, MAX_NOME))
            /\ eof' = (fim = "eof" /\ Len(texto) < MAX_NOME - 1)
            /\ IF Len(acusado') = 0
               THEN /\ veredicto' = "invalida"
                    /\ UNCHANGED cont
               ELSE /\ cont' = contarPistasPorSuspeitoRec(raizPistas, tabela,
                                                          acusado', 0)
                    /\ veredicto' = VeredictoDe(cont')

-----------------------------------------------------------------------------
(* Initial values shared by every specification *)

\* the build fixes the width of unsigned long; nothing has run yet
InitComum ==
    /\ ulongBits \in {32, 64}
    /\ salas = SalasDeMain
    /\ raizPistas = NULL
    /\ atual = hall
    /\ eof = FALSE
    /\ encerrada = "nao"
    /\ cmds = <<>>
    /\ listadas = <<>>
    /\ acusado = <<>>
    /\ cont = -1
    /\ veredicto = "nenhum"
    /\ inseridas = {}
    /\ postas = {}
    /\ passos = 0
    /\ ult = SemUlt

-----------------------------------------------------------------------------
(* Spec: the program.  main has built the map and the table; explorarSalas *)
(* runs its loop (pc "entrar": top of the loop body, "prompt": at scanf),  *)
(* then verificarSuspeitoFinal runs ("veredicto"), then main releases the  *)
(* structures ("liberar") and returns ("fim").                             *)

\* 'e' 'E'
TeclasEsquerda ==
    {101, 69}

\* 'd' 'D'
TeclasDireita ==
    {100, 68}

\* 's' 'S'
TeclasSair ==
    {115, 83}

\* the first non-blank character of a command line: the six keys and 'x'
TeclasDeEntrada ==
    TeclasEsquerda \cup TeclasDireita \cup TeclasSair \cup {120}

\* how a line of stdin ends
FinsDeLinha ==
    {"nl", "eof"}

\* "carlos"
S_carlos_minusculo ==
    <<99, 97, 114, 108, 111, 115>>

\* the texts typed at the accusation prompt
AcusacoesDeEntrada ==
    {S_Carlos, S_Beatriz, S_Otavio, S_carlos_minusculo, <<>>,
     Rep(67, MAX_NOME)}

Init ==
    /\ InitComum
    /\ tabela = TabelaDeMain
    /\ pc = "entrar"

\* a plausible slip: the clue is taken from `raiz`, not from `atual`
EntrarNaSalaColetaRaiz ==
    /\ pc = "entrar"
    /\ IF atual = 0
       THEN /\ pc' = "veredicto"
            /\ encerrada' = "laco"
            /\ UNCHANGED <<raizPistas, inseridas>>
       ELSE /\ pc' = "prompt"
            /\ IF salas[hall].pista # <<>>
               THEN /\ raizPistas' =
                           inserirPista(raizPistas, salas[hall].pista)
                    /\ inseridas' = inseridas \cup {salas[hall].pista}
               ELSE UNCHANGED <<raizPistas, inseridas>>
            /\ UNCHANGED encerrada
    /\ UNCHANGED <<ulongBits, salas, tabela, atual, eof, cmds, listadas,
                   acusado, cont, veredicto, postas, passos, ult>>

\* a plausible slip: the room is announced but its clue is not inserted
EntrarNaSalaSemColeta ==
    /\ pc = "entrar"
    /\ IF atual = 0
       THEN pc' = "veredicto" /\ encerrada' = "laco"
       ELSE pc' = "prompt" /\ UNCHANGED encerrada
    /\ UNCHANGED <<ulongBits, salas, tabela, raizPistas, atual, eof, cmds,
                   listadas, acusado, cont, veredicto, inseridas, postas,
                   passos, ult>>

\* the loop test `while (atual)` and, inside, the room's announcement:
\* a non-empty clue is inserted into the tree before the menu is shown
EntrarNaSala ==
    /\ pc = "entrar"
    /\ IF atual = 0
       THEN /\ pc' = "veredicto"
            /\ encerrada' = "laco"
            /\ UNCHANGED <<raizPistas, inseridas>>
       ELSE /\ pc' = "prompt"
            /\ IF salas[atual].pista # <<>>
               THEN /\ raizPistas' =
                           inserirPista(raizPistas, salas[atual].pista)
                    /\ inseridas' = inseridas \cup {salas[atual].pista}
               ELSE UNCHANGED <<raizPistas, inseridas>>
            /\ UNCHANGED encerrada
    /\ UNCHANGED <<ulongBits, salas, tabela, atual, eof, cmds, listadas,
                   acusado, cont, veredicto, postas, passos, ult>>

\* scanf(" %c", &opc) delivers the key; limparEntradaRestante discards the
\* rest of the line, up to its newline or to the end of the file
LerOpcao(tecla, fim) ==
    /\ pc = "prompt"
    /\ ~eof
    /\ Len(cmds) < MaxComandos
    /\ cmds' = Append(cmds, tecla)
    /\ eof' = (fim = "eof")

\* a plausible slip: the stream's end-of-file state is cleared after the
\* failed read (clearerr(stdin))
EntradaIlegivelSemFim ==
    /\ pc = "prompt"
    /\ eof' = FALSE
    /\ pc' = "veredicto"
    /\ encerrada' = "entrada"
    /\ UNCHANGED <<ulongBits, salas, tabela, raizPistas, atual, cmds,
                   listadas, acusado, cont, veredicto, inseridas, postas,
                   passos, ult>>

\* a plausible slip: a failed read goes round the loop again (`continue`)
EntradaIlegivelRepete ==
    /\ pc = "prompt"
    /\ eof' = TRUE
    /\ pc' = "entrar"
    /\ UNCHANGED <<ulongBits, salas, tabela, raizPistas, atual, encerrada,
                   cmds, listadas, acusado, cont, veredicto, inseridas,
                   postas, passos, ult>>

\* scanf(" %c", &opc) != 1: only blanks are left before the end of the file
EntradaIlegivel ==
    /\ pc = "prompt"
    /\ eof' = TRUE
    /\ pc' = "veredicto"
    /\ encerrada' = "entrada"
    /\ UNCHANGED <<ulongBits, salas, tabela, raizPistas, atual, cmds,
                   listadas, acusado, cont, veredicto, inseridas, postas,
                   passos, ult>>

\* a plausible slip: the left child is taken without the NULL test
ComandoEsquerdaSemTeste ==
    \E tecla \in TeclasEsquerda, fim \in FinsDeLinha :
        /\ LerOpcao(tecla, fim)
        /\ atual' = salas[atual].esquerda
        /\ pc' = "entrar"
        /\ UNCHANGED <<ulongBits, salas, tabela, raizPistas, encerrada,
                       listadas, acusado, cont, veredicto, inseridas,
                       postas, passos, ult>>

ComandoEsquerda ==
    \E tecla \in TeclasEsquerda, fim \in FinsDeLinha :
        /\ LerOpcao(tecla, fim)
        /\ atual' = IF salas[atual].esquerda # 0
                    THEN salas[atual].esquerda ELSE atual
        /\ pc' = "entrar"
        /\ UNCHANGED <<ulongBits, salas, tabela, raizPistas, encerrada,
                       listadas, acusado, cont, veredicto, inseridas,
                       postas, passos, ult>>

\* a plausible slip: the right branch was copied from the left one and
\* still follows the left link
ComandoDireitaParaEsquerda ==
    \E tecla \in TeclasDireita, fim \in FinsDeLinha :
        /\ LerOpcao(tecla, fim)
        /\ atual' = IF salas[atual].direita # 0
                    THEN salas[atual].esquerda ELSE atual
        /\ pc' = "entrar"
        /\ UNCHANGED <<ulongBits, salas, tabela, raizPistas, encerrada,
                       listadas, acusado, cont, veredicto, inseridas,
                       postas, passos, ult>>

\* a plausible slip: the right child is taken without the NULL test
ComandoDireitaSemTeste ==
    \E tecla \in TeclasDireita, fim \in FinsDeLinha :
        /\ LerOpcao(tecla, fim)
        /\ atual' = salas[atual].direita
        /\ pc' = "entrar"
        /\ UNCHANGED <<ulongBits, salas, tabela, raizPistas, encerrada,
                       listadas, acusado, cont, veredicto, inseridas,
                       postas, passos, ult>>

ComandoDireita ==
    \E tecla \in TeclasDireita, fim \in FinsDeLinha :
        /\ LerOpcao(tecla, fim)
        /\ atual' = IF salas[atual].direita # 0
                    THEN salas[atual].direita ELSE atual
        /\ pc' = "entrar"
        /\ UNCHANGED <<ulongBits, salas, tabela, raizPistas, encerrada,
                       listadas, acusado, cont, veredicto, inseridas,
                       postas, passos, ult>>

ComandoSair ==
    \E tecla \in TeclasSair, fim \in FinsDeLinha :
        /\ LerOpcao(tecla, fim)
        /\ pc' = "veredicto"
        /\ encerrada' = "jogador"
        /\ UNCHANGED <<ulongBits, salas, tabela, raizPistas, atual,
                       listadas, acusado, cont, veredicto, inseridas,
                       postas, passos, ult>>

\* a plausible slip: an unknown key falls through to the left branch
ComandoInvalidoAnda ==
    \E tecla \in TeclasDeEntrada, fim \in FinsDeLinha :
        /\ tecla \notin TeclasEsquerda \cup TeclasDireita \cup TeclasSair
        /\ LerOpcao(tecla, fim)
        /\ atual' = IF salas[atual].esquerda # 0
                    THEN salas[atual].esquerda ELSE atual
        /\ pc' = "entrar"
        /\ UNCHANGED <<ulongBits, salas, tabela, raizPistas, encerrada,
                       listadas, acusado, cont, veredicto, inseridas,
                       postas, passos, ult>>

ComandoInvalido ==
    \E tecla \in TeclasDeEntrada, fim \in FinsDeLinha :
        /\ tecla \notin TeclasEsquerda \cup TeclasDireita \cup TeclasSair
        /\ LerOpcao(tecla, fim)
        /\ pc' = "entrar"
        /\ UNCHANGED <<ulongBits, salas, tabela, raizPistas, atual,
                       encerrada, listadas, acusado, cont, veredicto,
                       inseridas, postas, passos, ult>>

\* a plausible slip: the clue tree is released as soon as it was counted
JulgarQueLibera ==
    \E texto \in AcusacoesDeEntrada, fim \in FinsDeLinha :
        /\ pc = "veredicto"
        /\ verificarSuspeitoFinal(texto, fim)
        /\ raizPistas' = NULL
        /\ pc' = "liberar"
        /\ UNCHANGED <<ulongBits, salas, tabela, atual, encerrada, cmds,
                       inseridas, postas, passos>>

\* verificarSuspeitoFinal(raizPistas, tabela), called by main
Julgar ==
    \E texto \in AcusacoesDeEntrada, fim \in FinsDeLinha :
        /\ pc = "veredicto"
        /\ verificarSuspeitoFinal(texto, fim)
        /\ pc' = "liberar"
        /\ UNCHANGED <<ulongBits, salas, tabela, raizPistas, atual,
                       encerrada, cmds, inseridas, postas, passos>>

\* the end of main: liberarPistas, liberarTabelaHash (every bucket is set
\* to NULL), the rooms are freed, return 0.  The released clue tree is
\* shown as the empty tree; nothing reads it again.
Encerrar ==
    /\ pc = "liberar"
    /\ raizPistas' = NULL
    /\ tabela' = TabelaVazia
    /\ pc' = "fim"
    /\ UNCHANGED <<ulongBits, salas, atual, eof, encerrada, cmds, listadas,
                   acusado, cont, veredicto, inseridas, postas, passos, ult>>

Next ==
    \/ EntrarNaSala
    \/ ComandoEsquerda
    \/ ComandoDireita
    \/ ComandoSair
    \/ ComandoInvalido
    \/ EntradaIlegivel
    \/ Julgar
    \/ Encerrar

Spec ==
    Init /\ [][Next]_vars

\* the process is never suspended for ever and its stdin is a finite
\* stream, so no read blocks for ever: a step that can be taken is taken
SpecJusta ==
    Spec /\ WF_vars(Next)

\* no text occurs twice in the sequence e
SemRepeticao(e) ==
    \A i, j \in 1..Len(e) : i # j => e[i] # e[j]

\* the step read a command whose key is in T
LeuTecla(T) ==
    /\ Len(cmds') = Len(cmds) + 1
    /\ cmds'[Len(cmds')] \in T

TeclasInvalidas ==
    TeclasDeEntrada \ (TeclasEsquerda \cup TeclasDireita \cup TeclasSair)

\* the clues the tree holds
PistasColetadas ==
    {exibirPistas(raizPistas)[i] : i \in 1..Len(exibirPistas(raizPistas))}

\* the accusation was read, was not empty, and a verdict was printed
VeredictoDado ==
    veredicto \in {"culpado", "insuficiente"}

\* C6: a left command in a room without a left child, and a right command
\* in a room without a right child, leaves the current room and the clue
\* set as they were and the exploration goes on (back to the loop's top).
C6_CaminhoBloqueado ==
    [][/\ (LeuTecla(TeclasEsquerda) /\ salas[atual].esquerda = 0) =>
              /\ atual' = atual
              /\ raizPistas' = raizPistas
              /\ pc' = "entrar"
              /\ encerrada' = "nao"
       /\ (LeuTecla(TeclasDireita) /\ salas[atual].direita = 0) =>
              /\ atual' = atual
              /\ raizPistas' = raizPistas
              /\ pc' = "entrar"
              /\ encerrada' = "nao"]_vars

\* C6 witness: the third of three left commands was typed in Cozinha, a
\* leaf, and the exploration is still there.
C6_Witness ==
    /\ cmds = <<101, 101, 101>>
    /\ atual = cozinha
    /\ salas[cozinha].esquerda = 0
    /\ pc = "prompt"
    /\ encerrada = "nao"

\* C7: a command that is none of left, right, quit changes neither the
\* current room nor the clue set and does not end the exploration; the
\* loop then announces the same room again and prompts again, the clue
\* set still unchanged.
C7_ComandoInvalido ==
    [][/\ LeuTecla(TeclasInvalidas) =>
              /\ atual' = atual
              /\ raizPistas' = raizPistas
              /\ pc' = "entrar"
              /\ encerrada' = "nao"
       /\ (pc = "entrar" /\ cmds # <<>>
               /\ cmds[Len(cmds)] \in TeclasInvalidas) =>
              /\ pc' = "prompt"
              /\ atual' = atual
              /\ raizPistas' = raizPistas]_vars

\* C7 witness: after left, an unknown key was typed in Sala de Estar and
\* the program is prompting there again.
C7_Witness ==
    /\ cmds = <<101, 120>>
    /\ atual = estar
    /\ pc = "prompt"

\* C8: quit, and a failed read of the command, end the exploration in
\* that very step; once ended, the current room never changes, no clue is
\* inserted and no command is read; the exploration ends in no other way
\* (the loop test never finds atual NULL).
C8_Encerramento ==
    /\ [](/\ encerrada \in {"nao", "jogador", "entrada"}
          /\ encerrada = "nao" <=> pc \in {"entrar", "prompt"}
          /\ pc \in {"entrar", "prompt"} => atual \in DOMAIN salas)
    /\ [][/\ LeuTecla(TeclasSair) =>
                 pc' = "veredicto" /\ encerrada' = "jogador"
          /\ (pc = "prompt" /\ (eof \/ cmds' = cmds)) =>
                 pc' = "veredicto" /\ encerrada' = "entrada"
          /\ encerrada # "nao" =>
                 /\ encerrada' = encerrada
                 /\ atual' = atual
                 /\ inseridas' = inseridas
                 /\ cmds' = cmds
          /\ (encerrada = "nao" /\ encerrada' # "nao") =>
                 /\ pc = "prompt"
                 /\ LeuTecla(TeclasSair) \/ (cmds' = cmds /\ eof')]_vars

\* C8 witness: the input ended in Cozinha after two commands, and the
\* program ran to its end from there.
C8_Witness ==
    /\ encerrada = "entrada"
    /\ pc = "fim"
    /\ atual = cozinha
    /\ Len(cmds) = 2

\* C9: whenever the program waits for a command, the clue of the current
\* room is already in the clue set; when the first command is quit the
\* clue set is exactly {"Pegada suja"}, and whatever is then typed as the
\* accusation the count is at most 1 and a verdict, if one is printed, is
\* "insufficient".
C9_PistaNaEntrada ==
    /\ (pc = "prompt" /\ salas[atual].pista # <<>>) =>
           salas[atual].pista \in PistasColetadas
    /\ (cmds # <<>> /\ cmds[1] \in TeclasSair) =>
           /\ pc = "veredicto" => exibirPistas(raizPistas) = <<P_Pegada>>
           /\ pc \in {"liberar", "fim"} =>
                  /\ listadas = <<P_Pegada>>
                  /\ cont <= 1
                  /\ veredicto # "culpado"
                  /\ VeredictoDado => veredicto = "insuficiente"

\* C9 witness: quit was the first command, Carlos (the suspect of the
\* root's clue) was accused, and the verdict was printed for a count of 1.
C9_Witness ==
    /\ cmds = <<115>>
    /\ pc = "fim"
    /\ acusado = S_Carlos
    /\ cont = 1
    /\ veredicto = "insuficiente"

\* C10: after left, left, quit the clue set is exactly {"Pegada suja",
\* "Perfume feminino caro", "Copo com fragmento de esmalte"}, it is listed
\* in alphabetical order, and accusing "Dona Beatriz" gives a count of 2
\* and the guilty verdict.
C10_CenarioA ==
    (/\ Len(cmds) = 3
     /\ cmds[1] \in TeclasEsquerda
     /\ cmds[2] \in TeclasEsquerda
     /\ cmds[3] \in TeclasSair) =>
        /\ pc = "veredicto" =>
               /\ PistasColetadas = {P_Pegada, P_Perfume, P_Copo}
               /\ exibirPistas(raizPistas) = <<P_Copo, P_Pegada, P_Perfume>>
        /\ pc \in {"liberar", "fim"} =>
               /\ listadas = <<P_Copo, P_Pegada, P_Perfume>>
               /\ (acusado = S_Beatriz /\ veredicto # "erro_leitura") =>
                      cont = 2 /\ veredicto = "culpado"

\* C10 witness: the session left, left, quit ended with Dona Beatriz
\* accused and found guilty.
C10_Witness ==
    /\ cmds = <<101, 101, 115>>
    /\ pc = "fim"
    /\ acusado = S_Beatriz
    /\ cont = 2
    /\ veredicto = "culpado"
    /\ listadas = <<P_Copo, P_Pegada, P_Perfume>>

\* C11: after right, right, quit the clue set is exactly {"Pegada suja",
\* "Livro rasgado", "Luva encharcada"}; accusing "Professor Otávio" gives a
\* count of 2 and the guilty verdict, accusing "Carlos" gives a count of 1
\* and the insufficient verdict.
C11_CenarioB ==
    (/\ Len(cmds) = 3
     /\ cmds[1] \in TeclasDireita
     /\ cmds[2] \in TeclasDireita
     /\ cmds[3] \in TeclasSair) =>
        /\ pc = "veredicto" =>
               /\ PistasColetadas = {P_Pegada, P_Livro, P_Luva}
               /\ Len(exibirPistas(raizPistas)) = 3
        /\ pc \in {"liberar", "fim"} =>
               /\ listadas = <<P_Livro, P_Luva, P_Pegada>>
               /\ (acusado = S_Otavio /\ veredicto # "erro_leitura") =>
                      cont = 2 /\ veredicto = "culpado"
               /\ (acusado = S_Carlos /\ veredicto # "erro_leitura") =>
                      cont = 1 /\ veredicto = "insuficiente"

\* C11 witness: the session right, right, quit ended with Professor Otávio
\* accused and found guilty on a count of 2.
C11_Witness ==
    /\ cmds = <<100, 100, 115>>
    /\ pc = "fim"
    /\ acusado = S_Otavio
    /\ cont = 2
    /\ veredicto = "culpado"
    /\ listadas = <<P_Livro, P_Luva, P_Pegada>>

\* the accusation could not be read: stdin was at its end already, or
\* nothing at all was left on it
AcusacaoIlegivel ==
    ult.esgotada \/ (ult.chave = <<>> /\ ~ult.terminada)

\* the accusation line was read and holds nothing but its terminator
AcusacaoVazia ==
    ~AcusacaoIlegivel /\ ult.chave = <<>>

\* C12: an accusation that cannot be read, or that is empty once its line
\* terminator is trimmed, is rejected: no count is computed and no verdict
\* is printed (any other accusation gets both); after a rejection the
\* program still runs to its normal end.
C12_AcusacaoInvalida ==
    /\ [](ult.op = "acusar" =>
              /\ AcusacaoIlegivel =>
                     /\ veredicto = "erro_leitura"
                     /\ cont = -1
              /\ AcusacaoVazia =>
                     /\ veredicto = "invalida"
                     /\ acusado = <<>>
                     /\ cont = -1
              /\ (~AcusacaoIlegivel /\ ~AcusacaoVazia) =>
                     /\ VeredictoDado
                     /\ cont >= 0)
    /\ (veredicto \in {"erro_leitura", "invalida"}) ~> (pc = "fim")

\* C12 witness: after three commands the player quit and answered the
\* accusation prompt with an empty line; the program has ended.
C12_Witness ==
    /\ pc = "fim"
    /\ encerrada = "jogador"
    /\ Len(cmds) = 3
    /\ ult.op = "acusar"
    /\ ult.chave = <<>>
    /\ ult.terminada
    /\ veredicto = "invalida"

\* C13: entering a room whose clue is empty or is already in the clue set
\* (the loop enters the current room again after a command that did not
\* move, blocked or invalid) leaves the clue tree exactly as it was, so
\* however often rooms were entered every clue is held once.
C13_VisitaIdempotente ==
    /\ [](pc \in {"entrar", "prompt", "veredicto", "liberar"} =>
              /\ SemRepeticao(exibirPistas(raizPistas))
              /\ Len(exibirPistas(raizPistas)) = Cardinality(inseridas))
    /\ [][(/\ pc = "entrar"
           /\ atual \in DOMAIN salas
           /\ \/ salas[atual].pista = <<>>
              \/ salas[atual].pista \in PistasColetadas) =>
              /\ raizPistas' = raizPistas
              /\ pc' = "prompt"]_vars

\* C13 witness: Biblioteca was entered three times (by a move, after a
\* blocked left and after an invalid key) and the clue set holds its clue
\* once, next to the root's.
C13_Witness ==
    /\ cmds = <<100, 101, 120>>
    /\ atual = biblioteca
    /\ pc = "prompt"
    /\ exibirPistas(raizPistas) = <<P_Livro, P_Pegada>>

\* C14: in every state of the exploration, and when the verdict stage
\* starts, the rooms (names, clues, links) and the table (every key and
\* suspect) are those main built, and no step of the exploration or of
\* the verdict stage changes them; the clue tree is changed by the
\* exploration loop only, when it enters a room, and never by the verdict
\* stage.
C14_SomenteLeitura ==
    /\ [](pc \in {"entrar", "prompt", "veredicto"} =>
              /\ salas = SalasDeMain
              /\ tabela = TabelaDeMain)
    /\ [][/\ pc \in {"entrar", "prompt", "veredicto"} =>
                 /\ salas' = salas
                 /\ tabela' = tabela
          /\ pc \in {"prompt", "veredicto"} => raizPistas' = raizPistas
          /\ (pc = "entrar" /\ raizPistas' # raizPistas) =>
                 /\ atual \in DOMAIN salas
                 /\ raizPistas' =
                        inserirPista(raizPistas, salas[atual].pista)]_vars

\* C14 witness: three clues were collected and a verdict was printed; the
\* tree still holds the three clues and the table is the one main built.
C14_Witness ==
    /\ pc = "liberar"
    /\ VeredictoDado
    /\ Len(exibirPistas(raizPistas)) = 3
    /\ listadas = exibirPistas(raizPistas)
    /\ tabela = TabelaDeMain
    /\ salas = SalasDeMain

\* C15: whatever commands were typed, blocked and invalid ones included,
\* once quit is read or the input has ended the exploration is over; the
\* verdict stage then runs, once (the program never comes back to it or
\* to the exploration), and the program reaches its normal end and stays
\* there.
C15_Termino ==
    /\ <>(pc = "fim")
    /\ ((cmds # <<>> /\ cmds[Len(cmds)] \in TeclasSair) \/ eof)
           ~> (pc = "fim" /\ ult.op = "acusar")
    /\ [][/\ (LeuTecla(TeclasSair) \/ (pc = "prompt" /\ eof)) =>
                 pc' = "veredicto"
          /\ pc = "veredicto" => (pc' = "liberar" /\ ult'.op = "acusar")
          /\ pc = "liberar" => pc' = "fim"
          /\ pc = "fim" => pc' = "fim"
          /\ ult.op = "acusar" => ult' = ult]_vars

\* C15 witness: a move, a blocked command and an invalid key were typed,
\* then the input ended; the verdict stage has run and the program is at
\* its end.
C15_Witness ==
    /\ cmds = <<100, 101, 120>>
    /\ atual = biblioteca
    /\ encerrada = "entrada"
    /\ ult.op = "acusar"
    /\ pc = "fim"

\* C16: a left command in a room that has a left child makes that child
\* the current room, a right command in a room that has a right child
\* makes that child the current room; the current room changes in no
\* other step; and the loop then enters the new room, whose clue (when it
\* is not empty) is in the clue set before the next prompt.
C16_Navegacao ==
    [][/\ (LeuTecla(TeclasEsquerda) /\ salas[atual].esquerda # 0) =>
              /\ atual' = salas[atual].esquerda
              /\ pc' = "entrar"
       /\ (LeuTecla(TeclasDireita) /\ salas[atual].direita # 0) =>
              /\ atual' = salas[atual].direita
              /\ pc' = "entrar"
       /\ atual' # atual =>
              \/ LeuTecla(TeclasEsquerda) /\ atual' = salas[atual].esquerda
              \/ LeuTecla(TeclasDireita) /\ atual' = salas[atual].direita
       /\ (pc = "entrar" /\ atual \in DOMAIN salas) =>
              /\ pc' = "prompt"
              /\ atual' = atual
              /\ salas[atual].pista # <<>> =>
                     salas[atual].pista \in
                         {exibirPistas(raizPistas')[i] :
                              i \in 1..Len(exibirPistas(raizPistas'))}]_vars

\* C16 witness: right, then left was blocked, then right again: the
\* engine is in Porão, entered from Biblioteca, and Porão's clue is in the
\* clue set.
C16_Witness ==
    /\ cmds = <<100, 101, 100>>
    /\ atual = porao
    /\ pc = "prompt"
    /\ P_Luva \in PistasColetadas

\* the rooms that have r as their left or right child
PaisDe(r) ==
    {q \in DOMAIN salas : salas[q].esquerda = r \/ salas[q].direita = r}

\* the rooms from r up to the root of the map, following parents for at
\* most n links
RECURSIVE CaminhoAte(_, _)
CaminhoAte(r, n) ==
    IF r = hall \/ n = 0 \/ PaisDe(r) = {} THEN {r}
    ELSE {r} \cup CaminhoAte(CHOOSE q \in PaisDe(r) : TRUE, n - 1)

\* the non-empty clues of the rooms on the path from the root to r
PistasDoCaminho(r) ==
    {salas[q].pista : q \in CaminhoAte(r, Cardinality(DOMAIN salas))}
        \ {<<>>}

\* C17: once the entry of the current room has been processed (the program
\* prompts, or the exploration has ended) the clue set is exactly the set
\* of the clues of the rooms on the path from the root to the current
\* room; while a room is being entered only its own clue can be missing;
\* a clue of a room off the path is never in the set.
C17_InvarianteDoCaminho ==
    /\ pc \in {"prompt", "veredicto", "liberar"} =>
           PistasColetadas = PistasDoCaminho(atual)
    /\ pc = "entrar" =>
           /\ atual \in DOMAIN salas
           /\ PistasColetadas \subseteq PistasDoCaminho(atual)
           /\ PistasDoCaminho(atual) \ PistasColetadas
                  \subseteq {salas[atual].pista}
    /\ \A q \in DOMAIN salas :
           (pc # "fim" /\ q \notin CaminhoAte(atual, Cardinality(DOMAIN salas)))
               => salas[q].pista \notin PistasColetadas

\* C17 witness: the engine went left and then right, into Jardim; the set
\* holds the clues of Hall, Sala de Estar and Jardim, and not Cozinha's.
C17_Witness ==
    /\ atual = jardim
    /\ pc = "prompt"
    /\ Len(cmds) = 3
    /\ PistasColetadas = {P_Pegada, P_Perfume, P_Filtro}
    /\ P_Copo \notin PistasColetadas

\* the rooms reached from the root of the map by exactly n links
RECURSIVE Nivel(_)
Nivel(n) ==
    IF n = 0 THEN {hall}
    ELSE ({salas[q].esquerda : q \in Nivel(n - 1)}
              \cup {salas[q].direita : q \in Nivel(n - 1)}) \ {0}

\* the least number of links from the root to r
Profundidade(r) ==
    CHOOSE n \in 0..Cardinality(DOMAIN salas) :
        /\ r \in Nivel(n)
        /\ \A k \in 0..(n - 1) : r \notin Nivel(k)

\* C18: the current room is always a room of the map; when it changes,
\* the new room is one level deeper and was never entered before; so on
\* the map of main the depth is at most 2, at most 3 rooms are ever
\* entered (2 changes of room) and the clue set never holds more than 3
\* clues.
C18_DescidaSemVolta ==
    /\ [](/\ atual \in DOMAIN salas
          /\ Profundidade(atual) <= 2
          /\ Cardinality(inseridas) <= 3
          /\ Cardinality(inseridas) <= Profundidade(atual) + 1
          /\ Len(exibirPistas(raizPistas)) <= 3)
    /\ [][/\ Profundidade(atual') >= Profundidade(atual)
          /\ atual' # atual =>
                 /\ Profundidade(atual') = Profundidade(atual) + 1
                 /\ salas[atual'].pista \notin inseridas
                 /\ salas[atual].pista \in inseridas]_vars

\* C18 witness: after right and right the engine is in Porão, at depth 2;
\* a third right command was typed there and it is still in Porão, three
\* clues in the set.
C18_Witness ==
    /\ cmds = <<100, 100, 100>>
    /\ atual = porao
    /\ pc = "prompt"
    /\ Profundidade(atual) = 2
    /\ Len(exibirPistas(raizPistas)) = 3

\* every suspect name the table holds
SuspeitosDaTabela ==
    {tabela[x[1]][x[2]].suspeito : x \in Entradas(tabela)}

\* the names an accusation can put into `acusado`: what is read from the
\* typed lines, and every name of the table (any other name counts 0)
NomesAcusaveis ==
    ({strip_newline(fgets(n, "nl", MAX_NOME)) : n \in AcusacoesDeEntrada}
         \cup SuspeitosDaTabela) \ {<<>>}

\* the names that would be found guilty on the clues collected so far
Culpados ==
    {n \in NomesAcusaveis :
         VeredictoDe(contarPistasPorSuspeitoRec(raizPistas, tabela, n, 0))
             = "culpado"}

\* C19: on the map and the table of main, whatever clue set the
\* exploration ended with (it can end at every prompt), at most one name
\* would be found guilty; when it ended in the Hall none would be; a
\* guilty verdict is printed only for that one name and only after a move
\* away from the Hall.
C19_CulpadoUnico ==
    /\ pc = "veredicto" =>
           /\ Cardinality(Culpados) <= 1
           /\ atual = hall => Culpados = {}
    /\ veredicto = "culpado" =>
           /\ atual # hall
           /\ \E i \in 1..Len(cmds) :
                  cmds[i] \in TeclasEsquerda \cup TeclasDireita
           /\ pc = "liberar" => Culpados = {acusado}

\* C19 witness: in Jardim, two of the three clues point to Carlos; he was
\* accused and found guilty, and nobody else would have been.
C19_Witness ==
    /\ pc = "liberar"
    /\ atual = jardim
    /\ acusado = S_Carlos
    /\ veredicto = "culpado"
    /\ Culpados = {S_Carlos}

\* C20: when the exploration ended because the command could not be read
\* (stdin at its end), stdin stays at its end: the verdict stage lists the
\* collected clues, its read of the accusation fails, no count is computed
\* and no verdict is printed, and the program still reaches its normal end.
C20_FimDaEntrada ==
    /\ [](encerrada = "entrada" =>
              /\ eof
              /\ cont = -1
              /\ ~VeredictoDado
              /\ veredicto # "invalida"
              /\ pc = "liberar" =>
                     /\ listadas = exibirPistas(raizPistas)
                     /\ listadas # <<>>
              /\ pc \in {"liberar", "fim"} =>
                     /\ ult.op = "acusar"
                     /\ ult.esgotada
                     /\ veredicto = "erro_leitura"
                     /\ {listadas[i] : i \in 1..Len(listadas)}
                            = PistasDoCaminho(atual))
    /\ (encerrada = "entrada") ~> (pc = "fim")

\* C20 witness: after left and left the input ended in Cozinha; the three
\* clues were listed, the accusation could not be read and the program
\* has ended.
C20_Witness ==
    /\ encerrada = "entrada"
    /\ cmds = <<101, 101>>
    /\ pc = "fim"
    /\ listadas = <<P_Copo, P_Pegada, P_Perfume>>
    /\ veredicto = "erro_leitura"
    /\ cont = -1

-----------------------------------------------------------------------------
(* SpecPistas: the clue set on its own.  inserirPista and exibirPistas are *)
(* called with arbitrary arguments on a tree that starts empty.            *)

PistasArbitrarias ==
    {NULLPTR, <<>>, <<97>>, <<98>>, <<97, 98>>,
     Rep(97, MAX_PISTA - 1), Rep(97, MAX_PISTA),
     Rep(97, MAX_PISTA - 1) \o <<98>>}

InitPistas ==
    /\ InitComum
    /\ tabela = TabelaVazia
    /\ pc = "pistas"

InserirPistaPasso ==
    \E p \in PistasArbitrarias :
        /\ pc = "pistas"
        /\ passos < MaxInsercoes
        /\ raizPistas' = inserirPista(raizPistas, p)
        /\ inseridas' = inseridas \cup {p}
        /\ passos' = passos + 1
        /\ ult' = [SemUlt EXCEPT !.op = "inserir", !.chave = p,
                                 !.raizAntes = raizPistas]
        /\ UNCHANGED <<ulongBits, salas, tabela, atual, pc, eof, encerrada,
                       cmds, listadas, acusado, cont, veredicto, postas>>

ExibirPistasPasso ==
    /\ pc = "pistas"
    /\ listadas' = exibirPistas(raizPistas)
    /\ ult' = [SemUlt EXCEPT !.op = "exibir", !.raizAntes = raizPistas]
    /\ UNCHANGED <<ulongBits, salas, tabela, raizPistas, atual, pc, eof,
                   encerrada, cmds, acusado, cont, veredicto, inseridas, postas,
                   passos>>

NextPistas ==
    \/ InserirPistaPasso
    \/ ExibirPistasPasso

SpecPistas ==
    InitPistas /\ [][NextPistas]_vars

\* a real clue argument: a non-NULL, non-empty string
PistaReal(p) ==
    p # NULLPTR /\ p # <<>>

NaoDecrescente(e) ==
    \A i \in 1..(Len(e) - 1) : strcmp(e[i], e[i + 1]) <= 0

\* C1 (as claimed): whatever strings inserirPista was called with, the
\* enumeration holds no clue text twice and holds every distinct non-empty
\* text that was inserted.
C1_Unicidade ==
    LET e == exibirPistas(raizPistas)
    IN  /\ SemRepeticao(e)
        /\ \A p \in inseridas :
               PistaReal(p) => \E i \in 1..Len(e) : e[i] = p

\* C2: after any sequence of insertions the in-order enumeration is
\* non-decreasing in byte-wise order, and enumerating leaves the tree as it
\* was (a second enumeration prints the same lines).
C2_Ordenada ==
    /\ NaoDecrescente(exibirPistas(raizPistas))
    /\ ult.op = "exibir" =>
           /\ raizPistas = ult.raizAntes
           /\ listadas = exibirPistas(raizPistas)

\* C2 witness: an enumeration of three or more clues, truncated ones among
\* them, has just been printed.
C2_Witness ==
    /\ ult.op = "exibir"
    /\ Len(listadas) >= 3
    /\ Rep(97, MAX_PISTA) \in inseridas
    /\ <<98>> \in inseridas

-----------------------------------------------------------------------------
(* SpecHash: the suspect index on its own.  inserirNaHash is called with   *)
(* arbitrary arguments on a table that starts empty.                       *)

\* "aa" and "b@" fall into the same bucket
ChavesArbitrarias ==
    {NULLPTR, <<97, 97>>, <<98, 64>>, <<99>>, Rep(97, MAX_PISTA)}

SuspeitosArbitrarios ==
    {NULLPTR, <<65>>, <<66>>, Rep(67, MAX_NOME)}

InitHash ==
    /\ InitComum
    /\ tabela = TabelaVazia
    /\ pc = "hash"

InserirNaHashPasso ==
    \E k \in ChavesArbitrarias, v \in SuspeitosArbitrarios :
        /\ pc = "hash"
        /\ passos < MaxPuts
        /\ tabela' = inserirNaHash(tabela, k, v)
        /\ postas' = IF k # NULLPTR /\ v # NULLPTR
                      THEN postas \cup {k} ELSE postas
        /\ passos' = passos + 1
        /\ ult' = [SemUlt EXCEPT !.op = "put", !.chave = k, !.valor = v,
                                 !.nAntes = NumEntradas(tabela),
                                 !.presente = (k \in postas)]
        /\ UNCHANGED <<ulongBits, salas, raizPistas, atual, pc, eof, encerrada,
                       cmds, listadas, acusado, cont, veredicto, inseridas>>

NextHash ==
    InserirNaHashPasso

SpecHash ==
    InitHash /\ [][NextHash]_vars

ChavesUnicas(tab) ==
    \A x, y \in Entradas(tab) :
        x # y => tab[x[1]][x[2]].pista # tab[y[1]][y[2]].pista

\* C3 (as claimed): after put(clue, A) and then put(clue, B), get(clue) is
\* B and the second put added no entry; the table never holds two entries
\* with the same clue key.
C3_Sobrescrita ==
    /\ ChavesUnicas(tabela)
    /\ (ult.op = "put" /\ ult.presente
            /\ ult.chave # NULLPTR /\ ult.valor # NULLPTR) =>
           /\ encontrarSuspeito(tabela, ult.chave) = ult.valor
           /\ NumEntradas(tabela) = ult.nAntes

-----------------------------------------------------------------------------
(* SpecVeredicto: the judgement on arbitrary data.  A table is filled by   *)
(* inserirNaHash, rooms made by criarSala are entered as explorarSalas     *)
(* enters them (the clue of the room goes into the tree), and then         *)
(* verificarSuspeitoFinal runs once on what was built.                     *)

\* "aa" and "b@" share a bucket; "c" has one of its own
ChavesDoJulgamento ==
    {<<97, 97>>, <<98, 64>>, <<99>>}

\* "A" and "a"
SuspeitosDoJulgamento ==
    {<<65>>, <<97>>}

\* the clue strings the rooms are created with
PistasDasSalas ==
    {<<>>, <<97, 97>>, <<98, 64>>, <<99>>, Rep(97, MAX_PISTA)}

\* "A", "a", "Z" and the empty line
AcusacoesDoJulgamento ==
    {<<65>>, <<97>>, <<90>>, <<>>}

InitVeredicto ==
    /\ InitComum
    /\ tabela = TabelaVazia
    /\ pc = "montar"

\* the table is filled first, as in main
AssociarPasso ==
    \E k \in ChavesDoJulgamento, v \in SuspeitosDoJulgamento :
        /\ pc = "montar"
        /\ inseridas = {}
        /\ tabela' = inserirNaHash(tabela, k, v)
        /\ postas' = postas \cup {k}
        /\ UNCHANGED <<ulongBits, salas, raizPistas, atual, pc, eof,
                       encerrada, cmds, listadas, acusado, cont, veredicto,
                       inseridas, passos, ult>>

\* a room created with clue p is entered: explorarSalas inserts its clue
ColetarPasso ==
    \E p \in PistasDasSalas :
        LET sala == criarSala(<<83>>, p)
        IN  /\ pc = "montar"
            /\ IF sala.pista # <<>>
               THEN /\ raizPistas' = inserirPista(raizPistas, sala.pista)
                    /\ inseridas' = inseridas \cup {sala.pista}
               ELSE UNCHANGED <<raizPistas, inseridas>>
            /\ UNCHANGED <<ulongBits, salas, tabela, atual, pc, eof,
                           encerrada, cmds, listadas, acusado, cont,
                           veredicto, postas, passos, ult>>

JulgarPasso ==
    \E texto \in AcusacoesDoJulgamento, fim \in FinsDeLinha :
        /\ pc = "montar"
        /\ verificarSuspeitoFinal(texto, fim)
        /\ pc' = "julgado"
        /\ UNCHANGED <<ulongBits, salas, tabela, raizPistas, atual,
                       encerrada, cmds, inseridas, postas, passos>>

NextVeredicto ==
    \/ AssociarPasso
    \/ ColetarPasso
    \/ JulgarPasso

SpecVeredicto ==
    InitVeredicto /\ [][NextVeredicto]_vars

\* the suspects the table gives for the clues of the sequence e, from
\* position i on (NULLPTR where it gives none)
RECURSIVE SuspeitosDe(_, _)
SuspeitosDe(e, i) ==
    IF i > Len(e) THEN <<>>
    ELSE <<encontrarSuspeito(tabela, e[i])>> \o SuspeitosDe(e, i + 1)

\* the clues of e whose suspect, given by ss, is exactly `alvo`
PistasQueApontam(e, ss, alvo) ==
    {e[i] : i \in {j \in 1..Len(e) : ss[j] = alvo}}

\* the suspects ss taken in the order f and compared with `alvo` one after
\* the other from position i: how many are equal to it
RECURSIVE ContagemNaOrdem(_, _, _, _)
ContagemNaOrdem(ss, f, alvo, i) ==
    IF i > Len(ss) THEN 0
    ELSE (IF ss[f[i]] = alvo THEN 1 ELSE 0)
             + ContagemNaOrdem(ss, f, alvo, i + 1)

Permutacoes(n) ==
    {f \in [1..n -> 1..n] : \A i, j \in 1..n : i # j => f[i] # f[j]}

\* C4: when a verdict is printed, the count is the number of clues of the
\* set whose suspect is byte for byte the accused name; a clue without a
\* suspect adds nothing; counting the clues in any other order gives the
\* same number.
C4_Contagem ==
    VeredictoDado =>
        \A e \in {exibirPistas(raizPistas)} :
            \A ss \in {SuspeitosDe(e, 1)} :
                /\ acusado # <<>>
                /\ cont = Cardinality(PistasQueApontam(e, ss, acusado))
                /\ \A f \in Permutacoes(Len(e)) :
                       cont = ContagemNaOrdem(ss, f, acusado, 1)

\* C4 witness: three clues were collected, two point to the accused and
\* one has no suspect at all.
C4_Witness ==
    /\ VeredictoDado
    /\ Cardinality(PistasColetadas) = 3
    /\ cont = 2
    /\ \E p \in PistasColetadas : encontrarSuspeito(tabela, p) = NULLPTR

\* C5: a printed verdict is "guilty" exactly when at least 2 collected
\* clues resolve to the accused; with 0 or 1 it is "insufficient".
C5_Limiar ==
    VeredictoDado =>
        \A e \in {exibirPistas(raizPistas)} :
            \A ss \in {SuspeitosDe(e, 1)} :
                \A n \in {Cardinality(PistasQueApontam(e, ss, acusado))} :
                    /\ veredicto = "culpado" <=> n >= 2
                    /\ n \in {0, 1} => veredicto = "insuficiente"
                    /\ veredicto = "culpado" <=> cont >= 2

\* C5 witness: exactly two clues resolve to the accused, a third resolves
\* to the same name in another case, and the verdict is guilty.
C5_Witness ==
    /\ veredicto = "culpado"
    /\ cont = 2
    /\ acusado = <<65>>
    /\ \E p \in PistasColetadas : encontrarSuspeito(tabela, p) = <<97>>

=============================================================================
